---- MODULE Spec2Model ----
(***************************************************************************)
(* magentic/chat_model/stream.py: OutputStream and AsyncOutputStream, the  *)
(* engines that group a flat stream of LLM events into text segments and   *)
(* parsed tool calls.                                                      *)
(*                                                                         *)
(* A source event is named by its index in `source` (1..Len(source)), a    *)
(* tool-call fragment by <<event index, position in the event>>.  Every    *)
(* generator of the code (__stream__, _streamed_str, _tool_call, the       *)
(* flattening generator expression) is a record of the place it is         *)
(* suspended at; one action is one call from the consumer.                 *)
(***************************************************************************)
EXTENDS Integers, Sequences, FiniteSets, TLC

\* ---------------------------------------------------------------- bounds
MaxLen == 3       \* longest source
MaxParse == 1     \* most fragments a lazy Schema reads before it returns
MaxGens == 3      \* most generators (segments) one run makes

\* ------------------------------------------------------------ the inputs
\* The events a source is made of, each named by what the Parser says of it.
Items == {"Txt", "Admin", "Call1", "Cont", "CallUnk", "Both", "Multi", "NoFrag"}

NoId == 0
NoName == "None"

FunctionCallChunk(id, name, args) == [id |-> id, name |-> name, args |-> args]

\* StreamParser: the four questions the engine asks of an event.
is_content(item) == item \in {"Txt", "Both"}

get_content(item) ==
  CASE item = "Txt" -> "a"
    [] item = "Both" -> "b"
    [] OTHER -> ""

is_tool_call(item) == item \in {"Call1", "Cont", "CallUnk", "Both", "Multi", "NoFrag"}

iter_tool_calls(item) ==
  CASE item = "Call1" -> << FunctionCallChunk(1, "f", "x") >>
    [] item = "Cont" -> << FunctionCallChunk(NoId, NoName, "y"), FunctionCallChunk(NoId, NoName, "") >>
    [] item = "CallUnk" -> << FunctionCallChunk(3, "h", "w") >>
    [] item = "Both" -> << FunctionCallChunk(4, NoName, "v") >>
    [] item = "Multi" -> << FunctionCallChunk(1, "f", "x"), FunctionCallChunk(2, "g", "z") >>
    [] OTHER -> << >>

\* The tools the engine was constructed with.
function_schemas == {"f", "g"}

NoSchema == "NoSchema"

\* select_function_schema: the schema declared under the name, or None.
select_function_schema(schemas, name) == IF name \in schemas THEN name ELSE NoSchema

\* What a Schema does with an argument stream: it reads it to the end
\* (eager), or reads n fragments and returns a value that streams the rest
\* (lazy); it accepts the arguments or signals a ValidationError.
SchemaBehaviours ==
  { [eager |-> TRUE, n |-> 0, valid |-> v] : v \in BOOLEAN } \cup
  { [eager |-> FALSE, n |-> i, valid |-> v] : i \in 0..MaxParse, v \in BOOLEAN }

\* The behaviour given to a pull that reaches no parse.
NoParse == [eager |-> TRUE, n |-> 0, valid |-> TRUE]

Sources == UNION { [1..n -> Items] : n \in 0..MaxLen }

\* source: the events of the stream; os: an OutputStream over it; aos: an
\* AsyncOutputStream over the same events, driven by the same consumer;
\* late: a pull was made after the engine had finished.
VARIABLES source, os, aos, late

vars == << source, os, aos, late >>

Item(i) == source[i]

Chunk(fr) == iter_tool_calls(Item(fr[1]))[fr[2]]

\* ------------------------------------------------------------ generators
\* StreamState.update, as apply(self._state.update, ...) calls it.
update(updates, i) == Append(updates, i)

\* next(stream) for stream = apply(self._state.update, self._stream):
\* s.got is the event pulled, 0 on StopIteration.
stream_next(s) ==
  IF s.pos < Len(source)
  THEN [s EXCEPT !.pos = s.pos + 1, !.updates = update(@, s.pos + 1), !.got = s.pos + 1]
  ELSE [s EXCEPT !.got = 0]

\* Faulty variant of chain_next: the lookahead event is not put back in front.
chain_next_no_lookahead(s, k) == stream_next(s)

\* Faulty variant of chain_next: the lookahead event put back in front is
\* updated again when it is pulled.
chain_next_updates_again(s, k) ==
  IF s.gens[k].head # 0
  THEN [s EXCEPT !.gens[k].head = 0, !.got = s.gens[k].head,
                 !.updates = update(@, s.gens[k].head)]
  ELSE stream_next(s)

\* next() on chain([current_item], stream) as generator k holds it.
chain_next(s, k) ==
  IF s.gens[k].head # 0
  THEN [s EXCEPT !.gens[k].head = 0, !.got = s.gens[k].head]
  ELSE stream_next(s)

RECURSIVE streamed_str_loop(_, _)
\* Faulty variant of streamed_str_check: stores the boundary event and goes on
\* with the loop instead of returning.
streamed_str_check_no_return(s, k, item) ==
  IF is_tool_call(Item(item))
  THEN streamed_str_loop([s EXCEPT !.itemRef = << item >>], k)
  ELSE streamed_str_loop(s, k)

\* _streamed_str from the tool-call test of the item just handled
\* (lines 98-102).
streamed_str_check(s, k, item) ==
  IF is_tool_call(Item(item))
  THEN IF s.itemRef # << >>
       THEN [s EXCEPT !.gens[k].at = "ended", !.raised = "AssertRef"]
       ELSE [s EXCEPT !.gens[k].at = "ended", !.itemRef = << item >>]
  ELSE streamed_str_loop(s, k)

\* Faulty variant of streamed_str_item: an event without content ends the text.
streamed_str_item_stops(t, k) ==
  IF t.got = 0
  THEN [t EXCEPT !.gens[k].at = "ended", !.exhausted = TRUE]
  ELSE IF get_content(Item(t.got)) # ""
       THEN [t EXCEPT !.gens[k].at = "yield", !.gens[k].item = t.got,
                      !.gens[k].out = Append(@, t.got)]
       ELSE [t EXCEPT !.gens[k].at = "ended"]

\* Faulty variant of streamed_str_item: the end of the source is not recorded.
streamed_str_item_not_exhausted(t, k) ==
  IF t.got = 0
  THEN [t EXCEPT !.gens[k].at = "ended"]
  ELSE IF get_content(Item(t.got)) # ""
       THEN [t EXCEPT !.gens[k].at = "yield", !.gens[k].item = t.got,
                      !.gens[k].out = Append(@, t.got)]
       ELSE streamed_str_check(t, k, t.got)

\* _streamed_str with the result t.got of the for loop's next(): the
\* loop is over (line 103) or its body runs for the item (lines 96-102).
streamed_str_item(t, k) ==
  IF t.got = 0
  THEN [t EXCEPT !.gens[k].at = "ended", !.exhausted = TRUE]
  ELSE IF get_content(Item(t.got)) # ""
       THEN [t EXCEPT !.gens[k].at = "yield", !.gens[k].item = t.got,
                      !.gens[k].out = Append(@, t.got)]
       ELSE streamed_str_check(t, k, t.got)

\* _streamed_str from the top of its for loop, up to its next yield or end.
streamed_str_loop(s, k) == streamed_str_item(chain_next(s, k), k)

\* One next() on generator k of _streamed_str.
_streamed_str(s, k) ==
  CASE s.gens[k].at = "new" -> streamed_str_loop(s, k)
    [] s.gens[k].at = "yield" -> streamed_str_check(s, k, s.gens[k].item)
    [] OTHER -> s

RECURSIVE tool_calls_stream(_)
\* Faulty variant of tool_calls_item: a content event ends the flattened
\* stream and is kept as the lookahead of the next group.
tool_calls_item_groups(t) ==
  IF t.got = 0
  THEN [t EXCEPT !.curEv = 0, !.curFrag = 0, !.gotFrag = << >>]
  ELSE IF is_content(Item(t.got)) /\ ~is_tool_call(Item(t.got))
       THEN [t EXCEPT !.curEv = 0, !.curFrag = 0, !.gotFrag = << >>,
                      !.itemRef = << t.got >>]
       ELSE tool_calls_stream([t EXCEPT !.curEv = t.got, !.curFrag = 0])

\* The generator expression of lines 138-142, which flattens
\* iter_tool_calls over chain([current_item], stream), with the result
\* t.got of its outer loop's next().
tool_calls_item(t) ==
  IF t.got = 0
  THEN [t EXCEPT !.curEv = 0, !.curFrag = 0, !.gotFrag = << >>]
  ELSE tool_calls_stream([t EXCEPT !.curEv = t.got, !.curFrag = 0])

\* next() on that generator expression: s.gotFrag is the fragment, << >>
\* on StopIteration.
tool_calls_stream(s) ==
  IF s.curEv # 0 /\ s.curFrag < Len(iter_tool_calls(Item(s.curEv)))
  THEN [s EXCEPT !.curFrag = s.curFrag + 1, !.gotFrag = << s.curEv, s.curFrag + 1 >>]
  ELSE tool_calls_item(IF s.evHead # 0
                       THEN [s EXCEPT !.evHead = 0, !.got = s.evHead]
                       ELSE stream_next(s))

\* Faulty variant of fragment_next: the lookahead chunk is not put back in front.
fragment_next_no_lookahead(s, k) == tool_calls_stream(s)

\* next() on chain([current_tool_call_chunk], tool_calls_stream) as
\* generator k holds it.
fragment_next(s, k) ==
  IF s.gens[k].fhead # << >>
  THEN [s EXCEPT !.gens[k].fhead = << >>, !.gotFrag = s.gens[k].fhead]
  ELSE tool_calls_stream(s)

RECURSIVE tool_call_loop(_, _)
\* Faulty variant of tool_call_item: a chunk without an id of its own
\* ends the call as a chunk of another call does.
tool_call_item_ends_early(t, k) ==
  IF t.gotFrag = << >>
  THEN [t EXCEPT !.gens[k].at = "ended", !.exhausted = TRUE]
  ELSE IF Chunk(t.gotFrag).id # t.gens[k].id
       THEN IF t.toolRef # << >>
            THEN [t EXCEPT !.gens[k].at = "ended", !.raised = "AssertRef"]
            ELSE [t EXCEPT !.gens[k].at = "ended", !.toolRef = << t.gotFrag >>]
       ELSE IF Chunk(t.gotFrag).args # ""
            THEN [t EXCEPT !.gens[k].at = "yield", !.gens[k].args = Append(@, t.gotFrag)]
            ELSE tool_call_loop(t, k)

\* _tool_call with the result t.gotFrag of the for loop's next(): the
\* loop is over (line 121) or its body runs for the item (lines 114-120).
tool_call_item(t, k) ==
  IF t.gotFrag = << >>
  THEN [t EXCEPT !.gens[k].at = "ended", !.exhausted = TRUE]
  ELSE IF Chunk(t.gotFrag).id # NoId /\ Chunk(t.gotFrag).id # t.gens[k].id
       THEN IF t.toolRef # << >>
            THEN [t EXCEPT !.gens[k].at = "ended", !.raised = "AssertRef"]
            ELSE [t EXCEPT !.gens[k].at = "ended", !.toolRef = << t.gotFrag >>]
       ELSE IF Chunk(t.gotFrag).args # ""
            THEN [t EXCEPT !.gens[k].at = "yield", !.gens[k].args = Append(@, t.gotFrag)]
            ELSE tool_call_loop(t, k)

\* _tool_call from the top of its for loop, up to its next yield or end.
tool_call_loop(s, k) == tool_call_item(fragment_next(s, k), k)

\* One next() on generator k of _tool_call.
_tool_call(s, k) ==
  IF s.gens[k].at \in {"new", "yield"} THEN tool_call_loop(s, k) ELSE s

\* One next() on generator k, whichever method made it.
gen_next(s, k) ==
  IF s.gens[k].kind = "text" THEN _streamed_str(s, k) ELSE _tool_call(s, k)

\* n calls of next() on generator k, fewer if it ends first.
RECURSIVE take(_, _, _)
take(s, k, n) ==
  IF n = 0 \/ s.gens[k].at \notin {"new", "yield"} \/ s.raised # "" THEN s
  ELSE take(gen_next(s, k), k, n - 1)

\* consume(iterable): iterate generator k until it ends.
RECURSIVE consume(_, _)
consume(s, k) ==
  IF s.gens[k].at \notin {"new", "yield"} \/ s.raised # "" THEN s
  ELSE consume(gen_next(s, k), k)

\* FunctionSchema.parse_args once it has read what it reads of generator
\* k: it returns the value or raises ValidationError.
parse_result(t, k, b) ==
  IF t.raised # "" THEN t
  ELSE IF b.valid THEN [t EXCEPT !.gens[k].iterable = ~b.eager]
       ELSE [t EXCEPT !.raised = "ValidationError"]

\* FunctionSchema.parse_args on generator k, for a Schema of behaviour b.
parse_args(s, k, b) ==
  parse_result(IF b.eager THEN consume(s, k) ELSE take(s, k, b.n), k, b)

NewGen(kind) ==
  [kind |-> kind, at |-> "new", head |-> 0, fhead |-> << >>, item |-> 0,
   out |-> << >>, args |-> << >>, id |-> NoId, first |-> 0, open |-> << >>,
   yielded |-> FALSE, iterable |-> FALSE, drained |-> FALSE]

NoErr == [kind |-> "", id |-> NoId, name |-> "", snapshot |-> << >>, cause |-> "", site |-> ""]

\* ---------------------------------------------------------- __stream__
\* An exception leaves __stream__: the generator is finished.
Raise(s, e) == [s EXCEPT !.at = "error", !.err = e, !.raised = "", !.ret = "raise"]

\* An assert of __stream__, or of a generator it iterates, fails.
assertion_error(s, site) ==
  Raise(s, [NoErr EXCEPT !.kind = "AssertionError", !.site = site])

\* next() raises StopIteration inside the generator __stream__.
runtime_error(s, site) ==
  Raise(s, [NoErr EXCEPT !.kind = "RuntimeError", !.site = site])

\* Faulty variant of unknown_tool_error: the snapshot is the one taken before the
\* last event was applied.
unknown_tool_error_stale(s, c) ==
  Raise(s, [NoErr EXCEPT !.kind = "UnknownToolError", !.id = c.id, !.name = c.name,
                         !.snapshot = SubSeq(s.updates, 1, Len(s.updates) - 1),
                         !.site = "select_function_schema"])

\* Faulty variant of unknown_tool_error: one more event is pulled before
\* the snapshot is taken.
unknown_tool_error_pulls_on(s, c) ==
  Raise(stream_next(s), [NoErr EXCEPT !.kind = "UnknownToolError", !.id = c.id, !.name = c.name,
                         !.snapshot = stream_next(s).updates,
                         !.site = "select_function_schema"])

\* Lines 154-158: raise UnknownToolError for the chunk c that opens a call.
unknown_tool_error(s, c) ==
  Raise(s, [NoErr EXCEPT !.kind = "UnknownToolError", !.id = c.id, !.name = c.name,
                         !.snapshot = s.updates, !.site = "select_function_schema"])

\* Faulty variant of tool_schema_parse_error: the id is read from the chunk
\* waiting in tool_call_ref, the next call's, when there is one.
tool_schema_parse_error_next_id(s, k, site) ==
  Raise(s, [NoErr EXCEPT !.kind = "ToolSchemaParseError",
                         !.id = IF s.toolRef # << >> THEN Chunk(s.toolRef[1]).id
                                ELSE s.gens[k].id,
                         !.snapshot = s.updates, !.cause = "ValidationError",
                         !.site = site])

\* Lines 176-182: turn the ValidationError raised at `site` into a
\* ToolSchemaParseError for the call of generator k.
tool_schema_parse_error(s, k, site) ==
  Raise(s, [NoErr EXCEPT !.kind = "ToolSchemaParseError", !.id = s.gens[k].id,
                         !.snapshot = s.updates, !.cause = "ValidationError",
                         !.site = site])

\* What a lazy value does when the engine drains it: it streams the rest
\* of its arguments, or signals a ValidationError after n more fragments.
DrainBehaviours ==
  { [n |-> 0, valid |-> TRUE] } \cup { [n |-> i, valid |-> FALSE] : i \in 0..MaxParse }

DrainsAll == [n |-> 0, valid |-> TRUE]

\* The engine has to finish generator k itself (lines 133 and 169).
Drained(s, k) ==
  IF s.gens[k].at \in {"new", "yield"} THEN [s EXCEPT !.gens[k].drained = TRUE] ELSE s

RECURSIVE stream_while(_, _)
\* Lines 163-182 once parse_args has returned or raised for generator k.
tool_call_parsed(u, k) ==
  IF u.raised = "ValidationError" THEN tool_schema_parse_error(u, k, "parse_args")
  ELSE IF u.raised # "" THEN assertion_error(u, "tool_call_ref")
  ELSE [u EXCEPT !.gens[k].yielded = TRUE, !.at = "yieldTool", !.ret = "segment"]

\* Faulty variant of tool_call_chunk: the id and the name of the chunk are
\* not tested before the lookup.
tool_call_chunk_unchecked(t, fr, b) ==
  IF select_function_schema(function_schemas, Chunk(fr).name) = NoSchema
  THEN unknown_tool_error(t, Chunk(fr))
  ELSE tool_call_parsed(
         parse_args([t EXCEPT !.gens = Append(@, [NewGen("tool") EXCEPT
                                  !.fhead = fr, !.id = Chunk(fr).id, !.open = fr])],
                    Len(t.gens) + 1, b),
         Len(t.gens) + 1)

\* Lines 145-167 for the chunk fr popped from tool_call_ref; b is what
\* the Schema of the call does.
tool_call_chunk(t, fr, b) ==
  IF Chunk(fr).id = NoId \/ Chunk(fr).name = NoName
  THEN assertion_error(t, "first chunk")
  ELSE IF select_function_schema(function_schemas, Chunk(fr).name) = NoSchema
  THEN unknown_tool_error(t, Chunk(fr))
  ELSE tool_call_parsed(
         parse_args([t EXCEPT !.gens = Append(@, [NewGen("tool") EXCEPT
                                  !.fhead = fr, !.id = Chunk(fr).id, !.open = fr])],
                    Len(t.gens) + 1, b),
         Len(t.gens) + 1)

\* Faulty variant of tool_call_while: the chunk is read from tool_call_ref
\* and left in it.
tool_call_while_no_pop(s, b) ==
  IF s.toolRef = << >> THEN stream_while(s, b)
  ELSE tool_call_chunk(s, s.toolRef[1], b)

\* Lines 144-182, from the test of `while tool_call_ref`.
tool_call_while(s, b) ==
  IF s.toolRef = << >> THEN stream_while(s, b)
  ELSE tool_call_chunk([s EXCEPT !.toolRef = << >>], s.toolRef[1], b)

\* Line 143 with the result f.gotFrag of next(tool_calls_stream).
tool_call_first(f, b) ==
  IF f.gotFrag = << >> THEN runtime_error(f, "next(tool_calls_stream)")
  ELSE tool_call_while([f EXCEPT !.toolRef = << f.gotFrag >>], b)

\* Lines 183-184 with the result n.got of next(stream, None).
stream_skip(n, b) ==
  stream_while(IF n.got # 0 THEN [n EXCEPT !.itemRef = << n.got >>] ELSE n, b)

\* Lines 129-184 for the item popped from current_item_ref.
stream_item(t, item, b) ==
  IF is_content(Item(item))
  THEN [t EXCEPT !.gens = Append(@, [NewGen("text") EXCEPT
                            !.head = item, !.first = item, !.yielded = TRUE]),
                 !.at = "yieldText", !.ret = "segment"]
  ELSE IF is_tool_call(Item(item))
  THEN tool_call_first(tool_calls_stream([t EXCEPT !.evHead = item, !.curEv = 0,
                                                   !.curFrag = 0]), b)
  ELSE stream_skip(stream_next(t), b)

\* Lines 127-184, from the test of `while current_item_ref`.
stream_while(s, b) ==
  IF s.itemRef = << >> THEN [s EXCEPT !.at = "done", !.ret = "StopIteration"]
  ELSE stream_item([s EXCEPT !.itemRef = << >>], s.itemRef[1], b)

\* Line 136 done: consume(streamed_str) has returned or raised.
text_drained(t, b) ==
  IF t.raised # "" THEN assertion_error(t, "current_item_ref") ELSE stream_while(t, b)

\* Faulty variant of after_yield_text: the text left unread is not drained.
after_yield_text_no_drain(s, b) == stream_while(s, b)

\* Lines 133-136: back in __stream__ after `yield streamed_str`.
after_yield_text(s, b) ==
  IF s.itemRef = << >> /\ ~s.exhausted
  THEN text_drained(consume(Drained(s, Len(s.gens)), Len(s.gens)), b)
  ELSE stream_while(s, b)

\* Line 174 done: consume(output) has returned or raised; d is what the
\* yielded value did while the engine drained it.
output_drained(t, k, b, d) ==
  IF t.raised # "" THEN assertion_error(t, "tool_call_ref")
  ELSE IF ~d.valid
  THEN tool_schema_parse_error([t EXCEPT !.gens[k].at = "closed"], k, "consume")
  ELSE tool_call_while(t, b)

\* Lines 169-182: back in __stream__ after `yield output`.
after_yield_output(s, b, d) ==
  IF s.toolRef = << >> /\ ~s.exhausted
  THEN IF ~s.gens[Len(s.gens)].iterable
       THEN assertion_error(s, "isinstance(output, Iterable)")
       ELSE output_drained(IF d.valid
                           THEN consume(Drained(s, Len(s.gens)), Len(s.gens))
                           ELSE take(Drained(s, Len(s.gens)), Len(s.gens), d.n),
                           Len(s.gens), b, d)
  ELSE tool_call_while(s, b)

\* Line 126 with the result n.got of next(stream).
stream_start(n, b) ==
  IF n.got = 0 THEN runtime_error(n, "next(stream)")
  ELSE stream_while([n EXCEPT !.itemRef = << n.got >>], b)

\* __stream__, resumed from where it is suspended and run to its next
\* yield, its end or an exception.
__stream__(s, b, d) ==
  CASE s.at = "start" -> stream_start(stream_next(s), b)
    [] s.at = "yieldText" -> after_yield_text(s, b)
    [] s.at = "yieldTool" -> after_yield_output(s, b, d)
    [] OTHER -> [s EXCEPT !.ret = "StopIteration"]

\* Faulty variant of __next__: a finished iterator is started again.
next_restarts(s, b, d) ==
  IF s.at \in {"done", "error"} THEN __stream__([s EXCEPT !.at = "start"], b, d)
  ELSE __stream__(s, b, d)

\* OutputStream.__next__: one pull on self._iterator.
__next__(s, b, d) == __stream__(s, b, d)

\* ------------------------------------------- the AsyncOutputStream engine
\* The methods of AsyncOutputStream (lines 191-310), translated as those
\* of OutputStream are; `await` and `async for` are where it may suspend.

\* await anext(stream) for stream = aapply(self._state.update, self._stream):
\* s.got is the event pulled, 0 on StopIteration.
astream_next(s) ==
  IF s.pos < Len(source)
  THEN [s EXCEPT !.pos = s.pos + 1, !.updates = update(@, s.pos + 1), !.got = s.pos + 1]
  ELSE [s EXCEPT !.got = 0]

\* anext() on achain(async_iter([current_item]), stream) as generator k holds it.
achain_next(s, k) ==
  IF s.gens[k].head # 0
  THEN [s EXCEPT !.gens[k].head = 0, !.got = s.gens[k].head]
  ELSE astream_next(s)

RECURSIVE astreamed_str_loop(_, _)
\* async_streamed_str from the tool-call test of the item just handled
\* (lines 222-226).
astreamed_str_check(s, k, item) ==
  IF is_tool_call(Item(item))
  THEN IF s.itemRef # << >>
       THEN [s EXCEPT !.gens[k].at = "ended", !.raised = "AssertRef"]
       ELSE [s EXCEPT !.gens[k].at = "ended", !.itemRef = << item >>]
  ELSE astreamed_str_loop(s, k)

\* async_streamed_str with the result t.got of the async for loop's next(): the
\* loop is over (line 227) or its body runs for the item (lines 220-226).
astreamed_str_item(t, k) ==
  IF t.got = 0
  THEN [t EXCEPT !.gens[k].at = "ended", !.exhausted = TRUE]
  ELSE IF get_content(Item(t.got)) # ""
       THEN [t EXCEPT !.gens[k].at = "yield", !.gens[k].item = t.got,
                      !.gens[k].out = Append(@, t.got)]
       ELSE astreamed_str_check(t, k, t.got)

\* async_streamed_str from the top of its async for loop, up to its next yield or end.
astreamed_str_loop(s, k) == astreamed_str_item(achain_next(s, k), k)

\* One anext() on generator k of async_streamed_str.
async_streamed_str(s, k) ==
  CASE s.gens[k].at = "new" -> astreamed_str_loop(s, k)
    [] s.gens[k].at = "yield" -> astreamed_str_check(s, k, s.gens[k].item)
    [] OTHER -> s

\* The generator expression of lines 261-265, which flattens
\* iter_tool_calls over achain(async_iter([current_item]), stream), with the result
\* t.got of its outer loop's next().
RECURSIVE atool_calls_stream(_)
atool_calls_item(t) ==
  IF t.got = 0
  THEN [t EXCEPT !.curEv = 0, !.curFrag = 0, !.gotFrag = << >>]
  ELSE atool_calls_stream([t EXCEPT !.curEv = t.got, !.curFrag = 0])

\* anext() on that generator expression: s.gotFrag is the fragment, << >>
\* on StopIteration.
atool_calls_stream(s) ==
  IF s.curEv # 0 /\ s.curFrag < Len(iter_tool_calls(Item(s.curEv)))
  THEN [s EXCEPT !.curFrag = s.curFrag + 1, !.gotFrag = << s.curEv, s.curFrag + 1 >>]
  ELSE atool_calls_item(IF s.evHead # 0
                       THEN [s EXCEPT !.evHead = 0, !.got = s.evHead]
                       ELSE astream_next(s))

\* anext() on achain(async_iter([current_tool_call_chunk]), tool_calls_stream) as
\* generator k holds it.
afragment_next(s, k) ==
  IF s.gens[k].fhead # << >>
  THEN [s EXCEPT !.gens[k].fhead = << >>, !.gotFrag = s.gens[k].fhead]
  ELSE atool_calls_stream(s)

\* async_tool_call with the result t.gotFrag of the async for loop's next(): the
\* loop is over (line 243) or its body runs for the item (lines 236-242).
RECURSIVE atool_call_loop(_, _)
atool_call_item(t, k) ==
  IF t.gotFrag = << >>
  THEN [t EXCEPT !.gens[k].at = "ended", !.exhausted = TRUE]
  ELSE IF Chunk(t.gotFrag).id # NoId /\ Chunk(t.gotFrag).id # t.gens[k].id
       THEN IF t.toolRef # << >>
            THEN [t EXCEPT !.gens[k].at = "ended", !.raised = "AssertRef"]
            ELSE [t EXCEPT !.gens[k].at = "ended", !.toolRef = << t.gotFrag >>]
       ELSE IF Chunk(t.gotFrag).args # ""
            THEN [t EXCEPT !.gens[k].at = "yield", !.gens[k].args = Append(@, t.gotFrag)]
            ELSE atool_call_loop(t, k)

\* async_tool_call from the top of its async for loop, up to its next yield or end.
atool_call_loop(s, k) == atool_call_item(afragment_next(s, k), k)

\* One anext() on generator k of async_tool_call.
async_tool_call(s, k) ==
  IF s.gens[k].at \in {"new", "yield"} THEN atool_call_loop(s, k) ELSE s

\* One anext() on generator k, whichever method made it.
agen_next(s, k) ==
  IF s.gens[k].kind = "text" THEN async_streamed_str(s, k) ELSE async_tool_call(s, k)

\* n calls of anext() on generator k, fewer if it ends first.
RECURSIVE atake(_, _, _)
atake(s, k, n) ==
  IF n = 0 \/ s.gens[k].at \notin {"new", "yield"} \/ s.raised # "" THEN s
  ELSE atake(agen_next(s, k), k, n - 1)

\* aconsume(iterable): iterate generator k until it ends.
RECURSIVE aconsume(_, _)
aconsume(s, k) ==
  IF s.gens[k].at \notin {"new", "yield"} \/ s.raised # "" THEN s
  ELSE aconsume(agen_next(s, k), k)

\* AsyncFunctionSchema.aparse_args on generator k, for a Schema of behaviour b.
aparse_args(s, k, b) ==
  parse_result(IF b.eager THEN aconsume(s, k) ELSE atake(s, k, b.n), k, b)

\* Lines 277-281: raise UnknownToolError for the chunk c that opens a call.
aunknown_tool_error(s, c) ==
  Raise(s, [NoErr EXCEPT !.kind = "UnknownToolError", !.id = c.id, !.name = c.name,
                         !.snapshot = s.updates, !.site = "select_function_schema"])

\* Lines 298-304: turn the ValidationError raised at `site` into a
\* ToolSchemaParseError for the call of generator k.
atool_schema_parse_error(s, k, site) ==
  Raise(s, [NoErr EXCEPT !.kind = "ToolSchemaParseError", !.id = s.gens[k].id,
                         !.snapshot = s.updates, !.cause = "ValidationError",
                         !.site = site])

RECURSIVE astream_while(_, _)
\* Lines 286-304 once parse_args has returned or raised for generator k.
atool_call_parsed(u, k) ==
  IF u.raised = "ValidationError" THEN atool_schema_parse_error(u, k, "parse_args")
  ELSE IF u.raised # "" THEN assertion_error(u, "tool_call_ref")
  ELSE [u EXCEPT !.gens[k].yielded = TRUE, !.at = "yieldTool", !.ret = "segment"]

\* Lines 268-290 for the chunk fr popped from tool_call_ref; b is what
\* the Schema of the call does.
atool_call_chunk(t, fr, b) ==
  IF Chunk(fr).id = NoId \/ Chunk(fr).name = NoName
  THEN assertion_error(t, "first chunk")
  ELSE IF select_function_schema(function_schemas, Chunk(fr).name) = NoSchema
  THEN aunknown_tool_error(t, Chunk(fr))
  ELSE atool_call_parsed(
         aparse_args([t EXCEPT !.gens = Append(@, [NewGen("tool") EXCEPT
                                  !.fhead = fr, !.id = Chunk(fr).id, !.open = fr])],
                    Len(t.gens) + 1, b),
         Len(t.gens) + 1)

\* Lines 267-304, from the test of `while tool_call_ref`.
atool_call_while(s, b) ==
  IF s.toolRef = << >> THEN astream_while(s, b)
  ELSE atool_call_chunk([s EXCEPT !.toolRef = << >>], s.toolRef[1], b)

\* Line 266 with the result f.gotFrag of await anext(tool_calls_stream).
atool_call_first(f, b) ==
  IF f.gotFrag = << >> THEN runtime_error(f, "next(tool_calls_stream)")
  ELSE atool_call_while([f EXCEPT !.toolRef = << f.gotFrag >>], b)

\* Lines 305-306 with the result n.got of await anext(stream, None).
astream_skip(n, b) ==
  astream_while(IF n.got # 0 THEN [n EXCEPT !.itemRef = << n.got >>] ELSE n, b)

\* Lines 250-306 for the item popped from current_item_ref.
astream_item(t, item, b) ==
  IF is_content(Item(item))
  THEN [t EXCEPT !.gens = Append(@, [NewGen("text") EXCEPT
                            !.head = item, !.first = item, !.yielded = TRUE]),
                 !.at = "yieldText", !.ret = "segment"]
  ELSE IF is_tool_call(Item(item))
  THEN atool_call_first(atool_calls_stream([t EXCEPT !.evHead = item, !.curEv = 0,
                                                   !.curFrag = 0]), b)
  ELSE astream_skip(astream_next(t), b)

\* Lines 248-306, from the test of `while current_item_ref`.
astream_while(s, b) ==
  IF s.itemRef = << >> THEN [s EXCEPT !.at = "done", !.ret = "StopIteration"]
  ELSE astream_item([s EXCEPT !.itemRef = << >>], s.itemRef[1], b)

\* Line 259 done: aconsume(streamed_str) has returned or raised.
atext_drained(t, b) ==
  IF t.raised # "" THEN assertion_error(t, "current_item_ref") ELSE astream_while(t, b)

\* Faulty variant of aafter_yield_text: the text left unread is not drained.
aafter_yield_text_no_drain(s, b) == astream_while(s, b)

\* Lines 256-259: back in async_stream after `yield streamed_str`.
aafter_yield_text(s, b) ==
  IF s.itemRef = << >> /\ ~s.exhausted
  THEN atext_drained(aconsume(Drained(s, Len(s.gens)), Len(s.gens)), b)
  ELSE astream_while(s, b)

\* Line 297 done: aconsume(output) has returned or raised; d is what the
\* yielded value did while the engine drained it.
aoutput_drained(t, k, b, d) ==
  IF t.raised # "" THEN assertion_error(t, "tool_call_ref")
  ELSE IF ~d.valid
  THEN atool_schema_parse_error([t EXCEPT !.gens[k].at = "closed"], k, "consume")
  ELSE atool_call_while(t, b)

\* Lines 292-304: back in async_stream after `yield output`.
aafter_yield_output(s, b, d) ==
  IF s.toolRef = << >> /\ ~s.exhausted
  THEN IF ~s.gens[Len(s.gens)].iterable
       THEN assertion_error(s, "isinstance(output, Iterable)")
       ELSE aoutput_drained(IF d.valid
                           THEN aconsume(Drained(s, Len(s.gens)), Len(s.gens))
                           ELSE atake(Drained(s, Len(s.gens)), Len(s.gens), d.n),
                           Len(s.gens), b, d)
  ELSE atool_call_while(s, b)

\* Line 247 with the result n.got of await anext(stream).
astream_start(n, b) ==
  IF n.got = 0 THEN runtime_error(n, "next(stream)")
  ELSE astream_while([n EXCEPT !.itemRef = << n.got >>], b)

\* async_stream, resumed from where it is suspended and run to its next
\* yield, its end or an exception.
async_stream(s, b, d) ==
  CASE s.at = "start" -> astream_start(astream_next(s), b)
    [] s.at = "yieldText" -> aafter_yield_text(s, b)
    [] s.at = "yieldTool" -> aafter_yield_output(s, b, d)
    [] OTHER -> [s EXCEPT !.ret = "StopIteration"]

\* AsyncOutputStream.__anext__: one pull on self._iterator.
__anext__(s, b, d) == async_stream(s, b, d)

\* The scratch results of the calls are not state.
Settle(s) == [s EXCEPT !.got = 0, !.gotFrag = << >>, !.raised = ""]

Finished(s) == s.at \in {"done", "error"}

\* ------------------------------------------------------------ the system
\* OutputStream.__init__
NewStream ==
  [at |-> "start", pos |-> 0, updates |-> << >>, itemRef |-> << >>, toolRef |-> << >>,
   exhausted |-> FALSE, evHead |-> 0, curEv |-> 0, curFrag |-> 0, gens |-> << >>,
   err |-> NoErr, ret |-> "", got |-> 0, gotFrag |-> << >>,
   raised |-> "", pulls |-> 0]

Init ==
  /\ source \in Sources
  /\ os = NewStream
  /\ aos = NewStream
  /\ late = FALSE

\* The consumer pulls the next Segment.
\* The consumer's count of its pulls on a running engine s, r being s
\* after the pull.
Counted(s, r) == [Settle(r) EXCEPT !.pulls = IF Finished(s) THEN @ ELSE @ + 1]

\* The consumer can read generator k of engine s.
Readable(s, k, kind) ==
  /\ k <= Len(s.gens)
  /\ s.gens[k].kind = kind
  /\ s.gens[k].yielded
  /\ kind = "tool" => s.gens[k].iterable
  /\ s.gens[k].at \in {"new", "yield"}

Pulled(b, d) ==
  /\ os' = Counted(os, __next__(os, b, d))
  /\ Len(os'.gens) <= MaxGens
  /\ aos' = Counted(aos, __anext__(aos, b, d))
  /\ late' = (late \/ Finished(os))
  /\ UNCHANGED source

Pull(b) == Pulled(b, DrainsAll)

\* The consumer pulls the next Segment, and the lazy value the engine
\* drains on the way signals a ValidationError.
PullDrainInvalid(d) ==
  /\ os.at = "yieldTool"
  /\ os.toolRef = << >> /\ ~os.exhausted
  /\ os.gens[Len(os.gens)].iterable
  /\ ~d.valid
  /\ Pulled(NoParse, d)

\* The consumer reads one fragment of Text Segment k.
ReadText(k) ==
  /\ Readable(os, k, "text")
  /\ os' = Settle(_streamed_str(os, k))
  /\ aos' = IF Readable(aos, k, "text") THEN Settle(async_streamed_str(aos, k)) ELSE aos
  /\ UNCHANGED << source, late >>

\* The consumer reads one item of the lazy value of call k.
ReadOutput(k) ==
  /\ Readable(os, k, "tool")
  /\ os' = Settle(_tool_call(os, k))
  /\ aos' = IF Readable(aos, k, "tool") THEN Settle(async_tool_call(aos, k)) ELSE aos
  /\ UNCHANGED << source, late >>

Next ==
  \/ \E b \in SchemaBehaviours : Pull(b)
  \/ \E d \in DrainBehaviours : PullDrainInvalid(d)
  \/ \E k \in 1..Len(os.gens) : ReadText(k)
  \/ \E k \in 1..Len(os.gens) : ReadOutput(k)

Spec == Init /\ [][Next]_vars

\* ------------------------------------------------- what the source holds
Min(S) == CHOOSE x \in S : \A y \in S : x <= y

IsPrefix(p, q) == Len(p) <= Len(q) /\ SubSeq(q, 1, Len(p)) = p

Upto(n) == [i \in 1..n |-> i]

\* The events a..b, in order.
Events(a, b) == [i \in 1..(b - a + 1) |-> a + i - 1]

HasContent(i) == get_content(Item(i)) # ""

ToolEventsFrom(o) == { i \in o..Len(source) : is_tool_call(Item(i)) }

\* The fragments of the events i.., flattened in source order.
RECURSIVE Flat(_)
Flat(i) ==
  IF i > Len(source) THEN << >>
  ELSE [j \in 1..Len(iter_tool_calls(Item(i))) |-> << i, j >>] \o Flat(i + 1)

\* The maximal runs of a fragment stream: a run starts at the first
\* fragment and at each fragment whose non-null id is not the active id.
RECURSIVE Runs(_, _, _)
Runs(frs, active, acc) ==
  IF frs = << >> THEN acc
  ELSE IF acc = << >> \/ (Chunk(Head(frs)).id # NoId /\ Chunk(Head(frs)).id # active)
       THEN Runs(Tail(frs), Chunk(Head(frs)).id, Append(acc, << Head(frs) >>))
       ELSE Runs(Tail(frs), active, [acc EXCEPT ![Len(acc)] = Append(@, Head(frs))])

HasArgs(fr) == Chunk(fr).args # ""

\* The runs of the tool-call group, which opens at the first tool-call event.
GroupRuns == Runs(Flat(Min(ToolEventsFrom(1))), NoId, << >>)

IsTool(g) == g.kind = "tool"

IsText(g) == g.kind = "text"

IsYielded(g) == g.yielded

ToolGens == SelectSeq(os.gens, IsTool)

Segments == SelectSeq(os.gens, IsYielded)

Kinds == [i \in 1..Len(Segments) |-> Segments[i].kind]

Open(g) == g.at \in {"new", "yield"}

\* ------------------------------------------------------------ the claims
\* C1: when the engine has reported end-of-sequence without an error,
\* State.update has been called exactly once on each source event, in
\* source order, however much of each Segment the consumer read.
C1_UpdateExactlyOnce == os.at = "done" => os.updates = Upto(Len(source))

\* C1 witness: a finished run of a full-length source with two Segments,
\* the first of which the engine had to drain itself.
C1_Witness ==
  /\ os.at = "done" /\ Len(source) = MaxLen
  /\ Len(Segments) >= 2 /\ Segments[1].drained

\* C4: a generator that is followed by another has ended, so at most one
\* Segment is open at any time, and the events pulled so far are exactly
\* the first ones of the source, none skipped.
C4_OneOpenSegment ==
  /\ \A k \in 1..Len(os.gens) : k < Len(os.gens) => os.gens[k].yielded /\ os.gens[k].at = "ended"
  /\ os.updates = Upto(os.pos)

\* C4 witness: a second Segment was yielded after a first one that the
\* engine drained itself, with events still left in the source.
C4_Witness ==
  /\ Len(Segments) >= 2 /\ Segments[1].drained /\ Segments[1].at = "ended"
  /\ IsTool(Segments[2]) /\ Open(Segments[2]) /\ os.pos < Len(source)

\* An event of the source is plain when it is content or a tool call, not
\* both, and a tool call carries one chunk with an id.
Plain(i) ==
  \/ is_content(Item(i)) /\ ~is_tool_call(Item(i))
  \/ /\ is_tool_call(Item(i)) /\ ~is_content(Item(i))
     /\ Len(iter_tool_calls(Item(i))) = 1
     /\ iter_tool_calls(Item(i))[1].id # NoId

Key(i) == IF is_content(Item(i)) THEN NoId ELSE iter_tool_calls(Item(i))[1].id

\* The Segment kinds the alternation of a plain source asks for: one per
\* maximal run of content events and one per tool call.
RECURSIVE Alternation(_)
Alternation(i) ==
  IF i > Len(source) THEN << >>
  ELSE IF i > 1 /\ Key(i) = Key(i - 1) THEN Alternation(i + 1)
  ELSE << IF is_content(Item(i)) THEN "text" ELSE "tool" >> \o Alternation(i + 1)

\* C2: for a source of content and tool-call events in any order, the
\* kinds of the Segments the engine has yielded when it ends normally are
\* the source's alternation of text runs and tool calls.
C2_MirrorsAlternation ==
  (os.at = "done" /\ \A i \in 1..Len(source) : Plain(i)) => Kinds = Alternation(1)

\* The last event of the text run that opens at event o: the first
\* tool-call event from o on, or the last event of the source.
TextEnd(o) == IF ToolEventsFrom(o) # {} THEN Min(ToolEventsFrom(o)) ELSE Len(source)

\* The same with the tool-call event that ends the run left out of it.
TextEndBefore(o) ==
  IF ToolEventsFrom(o + 1) # {} THEN Min(ToolEventsFrom(o + 1)) - 1 ELSE Len(source)

ContentsOf(a, b) == SelectSeq(Events(a, b), HasContent)

C5_CallRuns ==
  LET calls == ToolGens
      runs == GroupRuns
  IN  calls # << >> =>
        /\ Len(calls) <= Len(runs)
        /\ \A i \in 1..Len(calls) :
             /\ calls[i].open = runs[i][1]
             /\ IsPrefix(calls[i].args, SelectSeq(runs[i], HasArgs))
             /\ calls[i].at = "ended" => calls[i].args = SelectSeq(runs[i], HasArgs)
             /\ i < Len(calls) => calls[i].yielded /\ calls[i].at = "ended"
        /\ os.at = "done" =>
             Len(calls) = Len(runs) /\ \A i \in 1..Len(calls) : calls[i].yielded

\* C5 witness: the second call got its own args although the first call,
\* of several chunks, was drained by the engine and not by the consumer.
C5_Witness ==
  /\ Len(ToolGens) >= 2 /\ ToolGens[1].drained /\ Len(ToolGens[1].args) >= 2
  /\ ToolGens[2].yielded /\ ToolGens[2].at = "ended" /\ ToolGens[2].args # << >>

\* C6: an UnknownToolError carries the id and the name of the chunk that
\* opens the next run, a name no schema has, and the snapshot of the
\* events applied; no generator was made and so no parse was called for
\* that run, and every Segment before it was yielded and has ended.
C6_UnknownTool ==
  os.err.kind = "UnknownToolError" =>
    LET calls == Len(ToolGens)
        runs == GroupRuns
    IN  /\ calls < Len(runs)
        /\ os.err.id = Chunk(runs[calls + 1][1]).id
        /\ os.err.name = Chunk(runs[calls + 1][1]).name
        /\ os.err.name \notin function_schemas
        /\ os.err.snapshot = os.updates
        /\ os.updates = Upto(os.pos)
        /\ \A k \in 1..Len(os.gens) :
             /\ os.gens[k].open # runs[calls + 1][1]
             /\ os.gens[k].yielded /\ os.gens[k].at = "ended"

\* C6 witness: the unknown tool is met after a Text Segment and a call.
C6_Witness ==
  /\ os.err.kind = "UnknownToolError"
  /\ Len(Segments) >= 2 /\ IsText(Segments[1]) /\ IsTool(Segments[2])

\* C7: a ToolSchemaParseError raised for a failure of parse_args carries
\* the id of the chunk that opened the call, the ValidationError and the
\* snapshot of the events applied, and the call was not yielded.
C7_SchemaParseError ==
  (os.err.kind = "ToolSchemaParseError" /\ os.err.site = "parse_args") =>
    LET opening == GroupRuns[Len(ToolGens)][1]
    IN  /\ os.gens # << >> /\ IsTool(os.gens[Len(os.gens)])
        /\ ~os.gens[Len(os.gens)].yielded
        /\ os.gens[Len(os.gens)].open = opening
        /\ os.err.id = Chunk(opening).id
            /\ os.err.cause = "ValidationError"
        /\ os.err.snapshot = os.updates
        /\ os.updates = Upto(os.pos)

\* C7 witness: the parse of a call fails after an earlier Segment was
\* yielded, the parse having read up to the chunk that opens the next call.
C7_Witness ==
  /\ os.err.kind = "ToolSchemaParseError" /\ os.err.site = "parse_args"
  /\ Len(Segments) >= 1 /\ os.toolRef # << >>

Fatal == os.err.kind \in {"UnknownToolError", "ToolSchemaParseError"}

\* C8: once UnknownToolError or ToolSchemaParseError was raised, a step
\* yields no Segment, reports end-of-sequence, pulls no event and makes
\* no update.
C8_FatalErrors ==
  [][Fatal => /\ os'.at = "error" /\ os'.ret = "StopIteration"
              /\ os'.gens = os.gens /\ os'.err = os.err
              /\ os'.pos = os.pos /\ os'.updates = os.updates]_vars

\* C8 witness: a pull was made after the error, with events left in the
\* source.
C8_Witness == Fatal /\ late /\ os.ret = "StopIteration" /\ os.pos < Len(source)

\* The event that opens the first Segment.
Lead == Min({ i \in 1..Len(source) : is_content(Item(i)) \/ is_tool_call(Item(i)) })

\* The boundary event of the first Segment: the tool-call event that ends
\* its text, or the event of the first chunk of the second run; the last
\* event of the source when there is none.
FirstBoundary ==
  IF is_content(Item(Lead)) THEN TextEnd(Lead)
  ELSE IF Len(Runs(Flat(Lead), NoId, << >>)) >= 2
       THEN Runs(Flat(Lead), NoId, << >>)[2][1][1]
       ELSE Len(source)

\* C9: after one pull and a full drain of the Segment it gave, update has
\* been called on every event up to and including the boundary event.
C9_FirstSegmentDrained ==
  (os.pulls = 1 /\ Len(os.gens) = 1 /\ os.gens[1].yielded /\ os.gens[1].at = "ended") =>
    IsPrefix(Upto(FirstBoundary), os.updates)

\* C9 witness: the first Segment was drained by the consumer up to a
\* boundary, with events left in the source after it.
C9_Witness ==
  /\ os.pulls = 1 /\ Len(os.gens) = 1 /\ os.gens[1].yielded /\ os.gens[1].at = "ended"
  /\ ~os.gens[1].drained
  /\ os.itemRef # << >> \/ os.toolRef # << >>
  /\ os.pos < Len(source)

\* C10: driven by the same consumer over the same events, parser and
\* schemas, AsyncOutputStream is at every step where OutputStream is: the
\* same generators with the same fragments, the same updates, the same
\* lookahead items and chunks, the same result of the last pull and the
\* same error.
C10_SameGrouping ==
  /\ aos.gens = os.gens
  /\ aos.updates = os.updates /\ aos.pos = os.pos
  /\ aos.itemRef = os.itemRef /\ aos.toolRef = os.toolRef
  /\ aos.exhausted = os.exhausted
  /\ aos.at = os.at /\ aos.ret = os.ret /\ aos.err = os.err

\* C10 witness: both engines have raised after two Segments, the first of
\* them drained by the engine.
C10_Witness ==
  /\ aos.at = "error" /\ os.at = "error"
  /\ Len(aos.gens) >= 2 /\ aos.gens[1].yielded /\ aos.gens[1].drained
  /\ aos.gens[2].yielded /\ aos.updates # << >>

\* C11 (as stated): over a source without events the first pull ends the
\* Segment sequence normally: no error, no Segment, no update.
C11_EmptySourceEndsNormally ==
  (Len(source) = 0 /\ os.ret # "") =>
    /\ os.at = "done" /\ os.ret = "StopIteration" /\ os.err = NoErr
    /\ os.gens = << >> /\ os.updates = << >>

\* The engine is suspended at the yield of a Text Segment after whose
\* opening event the source holds no tool-call event.
LastText ==
  /\ os.at = "yieldText"
  /\ ToolEventsFrom(os.gens[Len(os.gens)].first) = {}

\* C12: a Text Segment that no tool-call event follows is the last one:
\* when it ends, read by the consumer or by the engine, the engine is
\* marked exhausted with every event pulled, and the pull after it reports
\* end-of-sequence with no error and no further Segment.
C12_TextIsLast ==
  [][LastText =>
       /\ Len(os'.gens) = Len(os.gens)
       /\ os'.gens[Len(os.gens)].at = "ended" =>
            os'.exhausted /\ os'.itemRef = << >> /\ os'.updates = Upto(Len(source))
       /\ os'.at # "yieldText" =>
            /\ os'.at = "done" /\ os'.ret = "StopIteration" /\ os'.err = NoErr
            /\ os'.gens[Len(os.gens)].at = "ended"]_vars

\* C12 witness: the engine has ended after a last Text Segment of several
\* fragments that the consumer had left unread.
C12_Witness ==
  /\ os.at = "done" /\ os.gens # << >>
  /\ IsText(os.gens[Len(os.gens)]) /\ os.gens[Len(os.gens)].drained
  /\ Len(os.gens[Len(os.gens)].out) >= 2

\* The events the engine or a generator holds: the lookahead slots, the
\* heads put back in front of a stream, the event being flattened and the
\* events of the fragments delivered.
Held ==
  { os.itemRef[i] : i \in 1..Len(os.itemRef) } \cup
  { os.toolRef[i][1] : i \in 1..Len(os.toolRef) } \cup
  ({ os.evHead, os.curEv } \ {0}) \cup
  UNION { ({ os.gens[k].head, os.gens[k].item } \ {0}) \cup
          { os.gens[k].fhead[i] : i \in (IF os.gens[k].fhead = << >> THEN {} ELSE {1}) } \cup
          { os.gens[k].out[i] : i \in 1..Len(os.gens[k].out) } \cup
          { os.gens[k].args[i][1] : i \in 1..Len(os.gens[k].args) }
          : k \in 1..Len(os.gens) }

\* C13: every event the engine classifies, holds as lookahead or has
\* delivered a fragment of was updated before; the updates are the events
\* pulled, each once and in order, so a lookahead put back in front is not
\* updated again; and a generator suspended at the yield of a fragment has
\* the fragment's event as the last one updated.
C13_UpdateBeforeRouting ==
  /\ os.updates = Upto(os.pos)
  /\ \A e \in Held : e \in 1..os.pos
  /\ \A k \in 1..Len(os.gens) :
       os.gens[k].at = "yield" =>
         IF IsText(os.gens[k])
         THEN os.gens[k].out # << >> /\ os.gens[k].out[Len(os.gens[k].out)] = os.pos
         ELSE os.gens[k].args # << >> /\ os.gens[k].args[Len(os.gens[k].args)][1] = os.pos

\* C13 witness: a second call is suspended at the yield of the args of
\* its opening chunk, which was the lookahead put back in front.
C13_Witness ==
  /\ Len(ToolGens) >= 2
  /\ ToolGens[Len(ToolGens)].at = "yield"
  /\ ToolGens[Len(ToolGens)].args = << ToolGens[Len(ToolGens)].open >>
  /\ os.pos > 1

\* C14: when UnknownToolError is raised, the events updated are exactly
\* those up to and including the event of the chunk that opens the call,
\* the first run of the group without a generator, and the snapshot the
\* error carries is the one of that point.
C14_UnknownToolSnapshot ==
  os.err.kind = "UnknownToolError" =>
    LET opening == GroupRuns[Len(ToolGens) + 1][1]
    IN  /\ Chunk(opening).name = os.err.name
        /\ os.updates = Upto(opening[1])
        /\ os.err.snapshot = Upto(opening[1])

\* C14 witness: the unknown tool is the second call, met after the
\* engine drained the first call itself, with events left in the source.
C14_Witness ==
  /\ os.err.kind = "UnknownToolError"
  /\ Len(ToolGens) = 1 /\ ToolGens[1].drained
  /\ os.pos > 1 /\ os.pos < Len(source)

\* C15: each lookahead slot holds at most one item, and neither
\* `assert not current_item_ref` nor `assert not current_tool_call_ref`
\* fails: not while the engine runs a generator (parse_args, consume), and
\* not at the next read of any generator that is still open.
C15_LookaheadSlots ==
  /\ Len(os.itemRef) <= 1 /\ Len(os.toolRef) <= 1
  /\ ~(os.err.kind = "AssertionError" /\ os.err.site \in {"current_item_ref", "tool_call_ref"})
  /\ \A k \in 1..Len(os.gens) : Open(os.gens[k]) => gen_next(os, k).raised # "AssertRef"

\* C15 witness: the chunk of a next call waits in tool_call_ref after the
\* tool-call event that ended a Text Segment went through current_item_ref.
C15_Witness ==
  /\ Len(os.gens) >= 2 /\ IsText(os.gens[1]) /\ os.gens[1].at = "ended"
  /\ os.toolRef # << >> /\ os.itemRef = << >>

\* The engine is suspended at the yield of a call whose generator has ended.
CallEnded ==
  /\ os.at = "yieldTool"
  /\ os.gens[Len(os.gens)].at = "ended"

\* C16: a call's argument stream has ended only at a chunk with a non-null
\* id other than the call's, now waiting in tool_call_ref, or at the end
\* of the source with every event updated; and an engine that ends
\* normally after a call has updated every event, those that trail the
\* last call included.
C16_CallEndsAtBoundary ==
  /\ CallEnded =>
       \/ /\ os.toolRef # << >>
          /\ Chunk(os.toolRef[1]).id \notin { NoId, os.gens[Len(os.gens)].id }
       \/ /\ os.toolRef = << >> /\ os.exhausted
          /\ os.updates = Upto(Len(source))
  /\ (os.at = "done" /\ ToolGens # << >>) => os.updates = Upto(Len(source))

\* C16 witness: the engine has ended normally after a call that ran over
\* chunks without an id and was followed by an event without chunks.
C16_Witness ==
  /\ os.at = "done" /\ ToolGens # << >>
  /\ Len(ToolGens[Len(ToolGens)].args) >= 2
  /\ \E i \in 1..Len(ToolGens[Len(ToolGens)].args) :
       Chunk(ToolGens[Len(ToolGens)].args[i]).id = NoId
  /\ iter_tool_calls(Item(Len(source))) = << >>

\* The chunk that opens the first run of the group that has no generator.
NextOpening == GroupRuns[Len(ToolGens) + 1][1]

\* C17: no generator, and so no Segment, lookup or parse, is made for a
\* call whose opening chunk has no id or no name, and neither
\* UnknownToolError nor ToolSchemaParseError is raised for one; the
\* AssertionError of lines 147-148 is raised for such a chunk only, which
\* is then among the args of no call.
C17_NullOpeningAborts ==
  /\ \A k \in 1..Len(os.gens) :
       IsTool(os.gens[k]) =>
         Chunk(os.gens[k].open).id # NoId /\ Chunk(os.gens[k].open).name # NoName
  /\ os.err.kind \in {"UnknownToolError", "ToolSchemaParseError"} => os.err.id # NoId
  /\ os.err.kind = "UnknownToolError" => os.err.name # NoName
  /\ (os.err.kind = "AssertionError" /\ os.err.site = "first chunk") =>
       /\ Chunk(NextOpening).id = NoId \/ Chunk(NextOpening).name = NoName
       /\ os.at = "error"
       /\ \A k \in 1..Len(os.gens) :
            /\ os.gens[k].open # NextOpening
            /\ \A i \in 1..Len(os.gens[k].args) : os.gens[k].args[i] # NextOpening

\* C17 witness: the engine aborted at a chunk with an id and no name that
\* opens a call after an earlier call was yielded.
C17_Witness ==
  /\ os.err.kind = "AssertionError" /\ os.err.site = "first chunk"
  /\ ToolGens # << >> /\ ToolGens[1].yielded
  /\ Chunk(NextOpening).id # NoId /\ Chunk(NextOpening).name = NoName

\* The same for a group whose first chunk has no id, after a Text Segment.
C17_WitnessNoId ==
  /\ os.err.kind = "AssertionError" /\ os.err.site = "first chunk"
  /\ ToolGens = << >> /\ Segments # << >>
  /\ Chunk(NextOpening).id = NoId

\* C18 (as stated): when the lookahead event is a tool call and neither it
\* nor any event after it has a chunk, the engine ends the Segment
\* sequence normally after it has updated every event, with no Structured
\* Segment and no error.
C18_NoChunksEndsNormally ==
  (/\ ToolEventsFrom(1) # {}
   /\ \A i \in 1..(Min(ToolEventsFrom(1)) - 1) : ~is_content(Item(i))
   /\ Flat(Min(ToolEventsFrom(1))) = << >>
   /\ os.ret # "") =>
    /\ os.at = "done" /\ os.err = NoErr
    /\ os.gens = << >> /\ os.updates = Upto(Len(source))

\* C19: in the sequence of Segments no Text Segment comes after a
\* Structured Segment, and once a call generator exists every Segment
\* made is a call; the engine that has ended after a call has put every
\* event through the flattened chunk stream.
C19_NoTextAfterCall ==
  /\ \A i, j \in 1..Len(os.gens) :
       (i < j /\ IsTool(os.gens[i])) => IsTool(os.gens[j])
  /\ (ToolGens # << >> /\ os.at = "done") =>
       /\ os.updates = Upto(Len(source))
       /\ os.itemRef = << >> /\ os.toolRef = << >>

\* C19 witness: the engine has ended after a call with a content event
\* behind it in the source, which made no Text Segment.
C19_Witness ==
  /\ os.at = "done" /\ ToolGens # << >>
  /\ \E i \in (ToolGens[1].open[1] + 1)..Len(source) :
       is_content(Item(i)) /\ ~is_tool_call(Item(i))

\* C20 (as stated): a finite source gives finitely many Segments: each
\* Segment the engine makes opens at an event or at a chunk of its own, so
\* there are never more Segments than the source has events and chunks.
C20_FinitelyManySegments == Len(os.gens) <= Len(source) + Len(Flat(1))
====
